---- MODULE Spec2Model ----
(***************************************************************************)
(* A model of the charm repository layer (charmrepo/repo.go), the mock     *)
(* charm store (testing package) and the bundle verifier (bundledata.go).  *)
(*                                                                         *)
(* Three specifications share the module's variables:                      *)
(*   Spec        the remote backend: concurrent charmStore.Get callers     *)
(*               over one cache directory and a changing index;            *)
(*   SpecLatest  the batch operations (Info, revisions, Latest) of the     *)
(*               remote, local and mock backends over drawn inputs;        *)
(*   SpecVerify  BundleData.Verify over drawn bundles.                     *)
(***************************************************************************)
EXTENDS Integers, Sequences, FiniteSets, TLC

\* ------------------------------------------------------------------ bounds
\* Get calls made by the callers together.
MaxCalls == 2
\* Identities in one Latest call.
MaxBatch == 2
\* Entries in the local repository's series directory.
MaxEntries == 2
\* Placement directives in a service's To.
MaxTo == 2
\* Relations in a bundle.
MaxRels == 1

\* ------------------------------------------------------------- identities
Callers == {"c1", "c2"}

\* The charm names; only "wordpress" is ever in the charm store.
Names == {"wordpress", "mysql"}

\* The revisions the index ever publishes.
Revs == {0, 1}

\* charm.URL: Revision -1 means unversioned.
Unversioned == -1

URL(n, r) == [name |-> n, rev |-> r]

Curls == {URL(n, r) : n \in Names, r \in {Unversioned} \cup Revs}

\* The identities the callers ask for.
Requests == {c \in Curls : c.name = "mysql" => c.rev = Unversioned}

\* The resolved identities: the keys of the final cache paths.
Resolved == {c \in Curls : c.rev # Unversioned}

WithRevision(c, r) == URL(c.name, r)

\* The mutant of CachePath: the revision is left out of the file name.
CachePathNoRevision(c) == <<c.name, ".charm">>

\* Line 374: the final cache path of a resolved identity, CacheDir joined with
\* the quoted canonical string (name and revision) and ".charm".
CachePath(c) == <<c.name, c.rev, ".charm">>

\* ---------------------------------------------------------- file contents
\* Contents are <<kind, name, rev>>.
NoFile == <<"nofile", "", Unversioned>>

EmptyFile == <<"empty", "", Unversioned>>

\* The archive the store holds for a resolved identity.
Artifact(c) == <<"charm", c.name, c.rev>>

\* A body that is no archive (the download does not look at the status code).
ErrorPage == <<"errorpage", "", Unversioned>>

\* What io.Copy leaves in the temporary file when it fails part-way.
Partial(b) == <<"partial", b[2], b[3]>>

IsPartial(f) == f[1] = "partial"

\* utils.ReadFileSHA256: the digest of a content; distinct contents have
\* distinct digests.
Sha256(f) == <<"sha256", f>>

NoDigest == <<"sha256", NoFile>>

\* ----------------------------------------------------------------- errors
NoErr == <<"nil">>

ErrTransport == <<"Cannot access the charm store">>

ErrStatus == <<"Invalid response code">>

ErrMissingKey(c) == <<"charm store returned response without charm", c>>

ErrNotFound(c) == <<"charm not found", c>>

ErrInfo(c, errs) == <<"charm info errors", c, errs>>

ErrWrongRevision(r, c) == <<"store returned charm with wrong revision", r, c>>

ErrBadSHA(c) == <<"bad SHA256", c>>

ErrNoSuchFile(c) == <<"open: no such file", c>>

ErrTempFile == <<"TempFile failed">>

ErrCopy == <<"copy or close failed">>

ErrRename == <<"rename failed">>

ErrArchive(c) == <<"cannot read charm archive", c>>

ErrExpectedOne(n) == <<"expected 1 result", n>>

\* ------------------------------------------------- remote backend: queries
\* The record the index holds for key c when it answers honestly: the current
\* revision and digest of c's name, whatever revision c carries.
IndexRecord(idx, c) ==
    IF idx[c.name].found
    THEN [Revision |-> idx[c.name].rev,
          Sha256 |-> Sha256(Artifact(URL(c.name, idx[c.name].rev))),
          Errors |-> <<>>]
    ELSE [Revision |-> 0, Sha256 |-> NoDigest,
          Errors |-> << <<"entry not found">> >>]

\* The HTTP outcomes of one charm-info request for the keys of curls: a
\* transport failure, a bad status, or a 200 whose JSON object holds a record
\* for the keys in keys only.
InfoReply(status, idx, keys) ==
    [status |-> status, body |-> [c \in keys |-> IndexRecord(idx, c)]]

SeqRange(s) == {s[i] : i \in 1..Len(s)}

InfoReplies(idx, curls) ==
    {InfoReply("transport", idx, {}), InfoReply("500", idx, {})}
    \cup {InfoReply("200", idx, keys) : keys \in SUBSET SeqRange(curls)}

\* The mutant of InfoResult: a key the response lacks becomes a per-item
\* error instead of failing the call.
InfoResultPerItem(curls, reply) ==
    IF reply.status = "transport" THEN [err |-> ErrTransport, infos |-> <<>>]
    ELSE IF reply.status # "200" THEN [err |-> ErrStatus, infos |-> <<>>]
    ELSE [err |-> NoErr,
          infos |-> [i \in 1..Len(curls) |->
                       IF curls[i] \in DOMAIN reply.body
                       THEN reply.body[curls[i]]
                       ELSE [Revision |-> 0, Sha256 |-> NoDigest,
                             Errors |-> << ErrMissingKey(curls[i]) >>]]]

\* charmStore.Info: one request for all curls; the first key missing from the
\* response fails the whole call.
InfoResult(curls, reply) ==
    IF reply.status = "transport" THEN [err |-> ErrTransport, infos |-> <<>>]
    ELSE IF reply.status # "200" THEN [err |-> ErrStatus, infos |-> <<>>]
    ELSE LET missing == {i \in 1..Len(curls) : curls[i] \notin DOMAIN reply.body}
             rewrite(info, c) ==
                 IF Len(info.Errors) = 1 /\ info.Errors[1] = <<"entry not found">>
                 THEN [info EXCEPT !.Errors = << ErrNotFound(c) >>]
                 ELSE info
         IN IF missing # {}
            THEN [err |-> ErrMissingKey(curls[CHOOSE i \in missing :
                                                \A j \in missing : i <= j]),
                  infos |-> <<>>]
            ELSE [err |-> NoErr,
                  infos |-> [i \in 1..Len(curls) |->
                               rewrite(reply.body[curls[i]], curls[i])]]

\* charmStore.revisions: one CharmRevision per info, or Info's error.
revisions(curls, reply) ==
    LET r == InfoResult(curls, reply)
        one(info, c) ==
            IF info.Errors = <<>>
            THEN [Revision |-> info.Revision, Sha256 |-> info.Sha256, Err |-> NoErr]
            ELSE [Revision |-> 0, Sha256 |-> NoDigest,
                  Err |-> IF Len(info.Errors) = 1
                             /\ info.Errors[1][1] = "charm not found"
                          THEN info.Errors[1]
                          ELSE ErrInfo(c, info.Errors)]
    IN IF r.err # NoErr
       THEN [err |-> r.err, revisions |-> <<>>]
       ELSE [err |-> NoErr,
             revisions |-> [i \in 1..Len(r.infos) |-> one(r.infos[i], curls[i])]]

\* The mutant of verify: any file at the path passes.
verifyExistsOnly(file, digest, c) ==
    IF file = NoFile THEN ErrNoSuchFile(c) ELSE NoErr

\* verify: nil only for a file at the path whose SHA256 is digest.
verify(file, digest, c) ==
    IF file = NoFile THEN ErrNoSuchFile(c)
    ELSE IF Sha256(file) # digest THEN ErrBadSHA(c)
    ELSE NoErr

\* The mutant of CheckRevision: the index's revision silently replaces the
\* caller's.
CheckRevisionSubstitute(c, rev) ==
    [err |-> NoErr, curl |-> WithRevision(c, rev)]

\* charmStore.Get, lines 369-373: an unversioned curl takes the index's
\* revision, an explicit one must agree with it.
CheckRevision(c, rev) ==
    IF c.rev = Unversioned THEN [err |-> NoErr, curl |-> WithRevision(c, rev)]
    ELSE IF c.rev # rev THEN [err |-> ErrWrongRevision(rev, c), curl |-> c]
    ELSE [err |-> NoErr, curl |-> c]

\* charmStore.Get, lines 358-373: the info query for the one curl, its
\* errors, and the revision check. known says that the index reported a
\* revision and a digest.
GetResolve(c, reply) ==
    LET r == revisions(<<c>>, reply)
        none == [err |-> NoErr, known |-> FALSE, rev |-> Unversioned,
                 digest |-> NoDigest, curl |-> c]
    IN IF r.err # NoErr THEN [none EXCEPT !.err = r.err]
       ELSE IF Len(r.revisions) # 1
       THEN [none EXCEPT !.err = ErrExpectedOne(Len(r.revisions))]
       ELSE IF r.revisions[1].Err # NoErr
       THEN [none EXCEPT !.err = r.revisions[1].Err]
       ELSE LET chk == CheckRevision(c, r.revisions[1].Revision)
            IN [err |-> chk.err, known |-> TRUE, rev |-> r.revisions[1].Revision,
                digest |-> r.revisions[1].Sha256, curl |-> chk.curl]

\* The mutant of CacheDecision: the cached file is never used.
CacheDecisionAlwaysDownload(err) == "download"

\* Line 375: a file that verifies is used as it is, anything else is
\* downloaded.
CacheDecision(err) == IF err # NoErr THEN "download" ELSE "verify"

\* charm.ReadCharmArchive: only an archive decodes.
ReadCharmArchive(file, c) ==
    IF file[1] = "charm" THEN [err |-> NoErr, charm |-> file]
    ELSE [err |-> ErrArchive(c), charm |-> NoFile]

\* ------------------------------------------------------------------ state
VARIABLES
    index,      \* the store's index: name -> [found, rev]
    cache,      \* the file at each final cache path (a resolved identity)
    tmp,        \* each caller's charm-download temporary file
    get,        \* each caller's position in charmStore.Get and its locals
    reported,   \* history: the digests the index has reported, per identity
    served,     \* history: the bodies the store has sent, per identity
    okSince,    \* history: per requested curl, the charm the last successful
                \* Get returned, while index and cache are unchanged since
    repoRoot,   \* the local repository: what is at local.Path
    repoDir,    \* the local repository: the listing of its series directory
    charms,     \* the mock store's table: base -> revision -> archive
    call,       \* the last batch call: its backend, inputs and results
    vf,         \* the bundle under verification and the verifier's state
    mk          \* the mock store's mutex and attributes, and where each
                \* goroutine using the store is in its call

remoteVars == <<index, cache, tmp, get, reported, served, okSince>>

batchVars == <<repoRoot, repoDir, charms, call>>

vars == <<remoteVars, batchVars, vf, mk>>

NoCall == [backend |-> "none"]

NoVerify ==
    [pc |-> "none",
     bd |-> [Services |-> <<>>, Machines |-> <<>>, Relations |-> <<>>],
     errors |-> <<>>, refs |-> <<>>, parsed |-> <<>>,
     result |-> [err |-> "pending"]]

Idle ==
    [pc |-> "idle", curl |-> URL("mysql", Unversioned),
     path |-> URL("mysql", Unversioned), digest |-> NoDigest, body |-> NoFile,
     result |-> NoErr, ret |-> NoFile, seen |-> NoFile, calls |-> 0,
     infoCalls |-> 0, downloads |-> 0, wrote |-> FALSE, expect |-> NoFile,
     fresh |-> FALSE, clean |-> FALSE, known |-> FALSE, rev |-> Unversioned]

\* The files Get may name in CacheDir.
CachePaths == {CachePath(c) : c \in Resolved}

\* No call on the mock store is being made.
NoOp == [name |-> "none", field |-> "", write |-> FALSE, val |-> "",
         curl |-> URL("", Unversioned), archive |-> [name |-> "", rev |-> Unversioned]]

\* NewMockCharmStore: the mutex free, the attributes zero.
NoMock ==
    [mu |-> "free", authAttrs |-> "", testMode |-> "false",
     defaultSeries |-> "",
     proc |-> [p \in Callers |-> [pc |-> "idle", op |-> NoOp, ret |-> NoErr]],
     crashed |-> FALSE]

Init ==
    /\ index = [n \in Names |-> [found |-> n = "wordpress", rev |-> 0]]
    /\ cache = [f \in CachePaths |-> NoFile]
    /\ tmp = [p \in Callers |-> NoFile]
    /\ get = [p \in Callers |-> Idle]
    /\ reported = [c \in Resolved |-> {}]
    /\ served = [c \in Resolved |-> {}]
    /\ okSince = [c \in Curls |-> NoFile]
    /\ repoRoot = "dir"
    /\ repoDir = <<>>
    /\ charms = <<>>
    /\ call = NoCall
    /\ vf = NoVerify
    /\ mk = NoMock

\* A change of the index or of a final cache path ends every "unchanged
\* since" period: expect is the charm an earlier Get returned for the same
\* curl, fresh says the index has not changed since this Get's info query,
\* clean that no final path has changed since its final verification.
Disturbed(g) ==
    [q \in Callers |->
        [g[q] EXCEPT !.expect = NoFile, !.fresh = FALSE, !.clean = FALSE]]

Forget == [c \in Curls |-> NoFile]

\* Get returns err.
Fail(g, err) == [g EXCEPT !.pc = "done", !.result = err, !.ret = NoFile]

\* The store publishes the next revision of a charm.
IndexPublish(n) ==
    /\ index[n].found
    /\ index[n].rev + 1 \in Revs
    /\ index' = [index EXCEPT ![n].rev = @ + 1]
    /\ get' = Disturbed(get)
    /\ okSince' = Forget
    /\ call' = NoCall
    /\ UNCHANGED <<cache, tmp, reported, served, repoRoot, repoDir, charms, vf, mk>>

RECURSIVE SumCalls(_)
SumCalls(ps) ==
    IF ps = {} THEN 0
    ELSE LET p == CHOOSE q \in ps : TRUE IN get[p].calls + SumCalls(ps \ {p})

\* The Get calls made so far.
Calls == SumCalls(Callers)

\* A caller calls Get(c); CacheDir is set and exists.
GetCall(p, c) ==
    /\ get[p].pc = "idle"
    /\ Calls < MaxCalls
    /\ get' = [get EXCEPT ![p] =
                 [Idle EXCEPT !.pc = "revisions", !.curl = c, !.path = c,
                              !.calls = get[p].calls + 1,
                              !.expect = okSince[c]]]
    /\ UNCHANGED <<index, cache, tmp, reported, served, okSince>>
    /\ UNCHANGED <<batchVars, vf, mk>>

\* Lines 358-374: the info query for the one curl, the revision check and
\* the final path.
GetRevisions(p) ==
    /\ get[p].pc = "revisions"
    /\ \E reply \in InfoReplies(index, <<get[p].curl>>) :
         LET r == GetResolve(get[p].curl, reply)
             g == [get[p] EXCEPT !.infoCalls = @ + 1, !.known = r.known,
                                 !.rev = r.rev, !.fresh = TRUE]
         IN /\ reported' = IF r.known
                            THEN [reported EXCEPT
                                    ![WithRevision(get[p].curl, r.rev)] =
                                        @ \cup {r.digest}]
                            ELSE reported
            /\ get' = [get EXCEPT ![p] =
                         IF r.err # NoErr THEN Fail(g, r.err)
                         ELSE [g EXCEPT !.pc = "cached", !.path = r.curl,
                                        !.digest = r.digest]]
    /\ UNCHANGED <<index, cache, tmp, served, okSince>>
    /\ UNCHANGED <<batchVars, vf, mk>>

\* Line 375: the file at the final path decides between a cache hit and a
\* download.
GetCheckCache(p) ==
    /\ get[p].pc = "cached"
    /\ get' = [get EXCEPT ![p].pc =
                 CacheDecision(verify(cache[CachePath(get[p].path)],
                                      get[p].digest, get[p].path))]
    /\ UNCHANGED <<index, cache, tmp, reported, served, okSince>>
    /\ UNCHANGED <<batchVars, vf, mk>>

\* What the store may send for an identity other than its archive: an error
\* page (the status code is not looked at) or another revision's archive.
WrongBodies(c) ==
    {ErrorPage} \cup {Artifact(d) : d \in {e \in Resolved : e.name = c.name /\ e # c}}

\* Lines 376-384: the request for the archive.
GetDownload(p) ==
    /\ get[p].pc = "download"
    /\ \/ /\ get' = [get EXCEPT ![p] = Fail([get[p] EXCEPT !.downloads = @ + 1],
                                             ErrTransport)]
          /\ UNCHANGED served
       \/ \E body \in {Artifact(get[p].path)} \cup WrongBodies(get[p].path) :
            /\ get' = [get EXCEPT ![p].pc = "tempfile", ![p].body = body,
                                  ![p].downloads = @ + 1]
            /\ served' = [served EXCEPT ![get[p].path] = @ \cup {body}]
    /\ UNCHANGED <<index, cache, tmp, reported, okSince>>
    /\ UNCHANGED <<batchVars, vf, mk>>

\* Lines 385-389: ioutil.TempFile makes a new empty file in CacheDir.
GetTempFile(p) ==
    /\ get[p].pc = "tempfile"
    /\ \/ /\ get' = [get EXCEPT ![p] = Fail(get[p], ErrTempFile)]
          /\ UNCHANGED tmp
       \/ /\ get' = [get EXCEPT ![p].pc = "copy", ![p].wrote = TRUE]
          /\ tmp' = [tmp EXCEPT ![p] = EmptyFile]
    /\ UNCHANGED <<index, cache, reported, served, okSince>>
    /\ UNCHANGED <<batchVars, vf, mk>>

\* The mutant of AfterCopyFailure: the copy's error is dropped and the
\* partly written file is renamed into place.
AfterCopyFailureIgnored == "rename"

\* Lines 394-397: where Get goes when the copy or the close failed.
AfterCopyFailure == "remove"

\* Lines 390-393: io.Copy into the temporary file, then Close.
GetCopy(p) ==
    /\ get[p].pc = "copy"
    /\ \/ /\ tmp' = [tmp EXCEPT ![p] = get[p].body]
          /\ get' = [get EXCEPT ![p].pc = "rename"]
       \/ /\ tmp' = [tmp EXCEPT ![p] = Partial(get[p].body)]
          /\ get' = [get EXCEPT ![p].pc = AfterCopyFailure]
    /\ UNCHANGED <<index, cache, reported, served, okSince>>
    /\ UNCHANGED <<batchVars, vf, mk>>

\* The mutant of Remove: the file stays.
RemoveNothing(file) == file

\* Line 395: os.Remove(dlPath); what is at the path afterwards.
Remove(file) == NoFile

\* Lines 394-397: the failed download's temporary file is removed and the
\* error returned.
GetRemoveTemp(p) ==
    /\ get[p].pc = "remove"
    /\ tmp' = [tmp EXCEPT ![p] = Remove(tmp[p])]
    /\ get' = [get EXCEPT ![p] = Fail(get[p], ErrCopy)]
    /\ UNCHANGED <<index, cache, reported, served, okSince>>
    /\ UNCHANGED <<batchVars, vf, mk>>

\* Lines 398-400: utils.ReplaceFile renames the temporary file onto the final
\* path in one step, or fails and leaves both as they were.
GetReplaceFile(p) ==
    /\ get[p].pc = "rename"
    /\ \/ /\ get' = [get EXCEPT ![p] = Fail(get[p], ErrRename)]
          /\ UNCHANGED <<cache, tmp, okSince>>
       \/ /\ cache' = [cache EXCEPT ![CachePath(get[p].path)] = tmp[p]]
          /\ tmp' = [tmp EXCEPT ![p] = NoFile]
          /\ get' = [Disturbed(get) EXCEPT ![p].pc = "verify",
                                            ![p].fresh = get[p].fresh]
          /\ okSince' = Forget
    /\ UNCHANGED <<index, reported, served>>
    /\ UNCHANGED <<batchVars, vf, mk>>

\* Lines 402-404: the file at the final path is verified again.
GetVerify(p) ==
    /\ get[p].pc = "verify"
    /\ LET file == cache[CachePath(get[p].path)]
           err == verify(file, get[p].digest, get[p].path)
           g == [get[p] EXCEPT !.seen = file]
       IN get' = [get EXCEPT ![p] =
                    IF err # NoErr THEN Fail(g, err)
                    ELSE [g EXCEPT !.pc = "read", !.clean = TRUE]]
    /\ UNCHANGED <<index, cache, tmp, reported, served, okSince>>
    /\ UNCHANGED <<batchVars, vf, mk>>

\* Line 405: the archive at the final path is read and returned.
GetReadArchive(p) ==
    /\ get[p].pc = "read"
    /\ LET r == ReadCharmArchive(cache[CachePath(get[p].path)], get[p].path)
       IN /\ get' = [get EXCEPT ![p].pc = "done", ![p].result = r.err,
                                ![p].ret = r.charm]
          /\ okSince' = IF r.err = NoErr /\ get[p].fresh /\ get[p].clean
                        THEN [okSince EXCEPT ![get[p].curl] = r.charm]
                        ELSE okSince
    /\ UNCHANGED <<index, cache, tmp, reported, served>>
    /\ UNCHANGED <<batchVars, vf, mk>>

\* The caller takes Get's result and may call again.
GetReturn(p) ==
    /\ get[p].pc = "done"
    /\ Calls < MaxCalls
    /\ get' = [get EXCEPT ![p].pc = "idle"]
    /\ UNCHANGED <<index, cache, tmp, reported, served, okSince>>
    /\ UNCHANGED <<batchVars, vf, mk>>

Next ==
    \/ \E n \in Names : IndexPublish(n)
    \/ \E p \in Callers, c \in Requests : GetCall(p, c)
    \/ \E p \in Callers : GetRevisions(p)
    \/ \E p \in Callers : GetCheckCache(p)
    \/ \E p \in Callers : GetDownload(p)
    \/ \E p \in Callers : GetTempFile(p)
    \/ \E p \in Callers : GetCopy(p)
    \/ \E p \in Callers : GetRemoveTemp(p)
    \/ \E p \in Callers : GetReplaceFile(p)
    \/ \E p \in Callers : GetVerify(p)
    \/ \E p \in Callers : GetReadArchive(p)
    \/ \E p \in Callers : GetReturn(p)

Spec == Init /\ [][Next]_vars

\* ------------------------------------------------ claims on the remote Get
\* The errors that come from the network or the file system, not from Get's
\* own checks.
IOErrors == {ErrTransport, ErrTempFile, ErrCopy, ErrRename}

\* The store has sent nothing but each identity's own archive.
HonestStore == \A c \in Resolved : served[c] \subseteq {Artifact(c)}

\* C1: Get returns success only if the file its final verification read at
\* the final cache path hashes to the digest the index reported; a file read
\* there that does not hash to it makes Get fail with the bad-SHA256 error
\* and return no charm.
C1_SuccessOnlyIfVerified ==
    \A p \in Callers :
        /\ (get[p].pc = "done" /\ get[p].result = NoErr)
              => (get[p].seen # NoFile /\ Sha256(get[p].seen) = get[p].digest)
        /\ (get[p].seen # NoFile /\ Sha256(get[p].seen) # get[p].digest)
              => (/\ get[p].pc \in {"done", "idle"}
                  /\ get[p].result = ErrBadSHA(get[p].path)
                  /\ get[p].ret = NoFile)

\* One caller has succeeded after a download and another has been refused
\* with the bad-SHA256 error.
C1_Witness ==
    \E p, q \in Callers :
        /\ get[p].pc = "done" /\ get[p].result = NoErr /\ get[p].downloads = 1
        /\ get[q].pc = "done" /\ get[q].result = ErrBadSHA(get[q].path)

\* C2: callers racing on one identity never leave a partly written file at a
\* final cache path, and with a store that sends the right archive every
\* caller that downloaded and met no I/O failure finishes successfully with a
\* file at the final path that passes verification.
C2_RaceLeavesVerifiedFile ==
    /\ \A f \in CachePaths : ~IsPartial(cache[f])
    /\ HonestStore =>
         \A p \in Callers :
             (get[p].pc = "done" /\ get[p].downloads = 1
              /\ get[p].result \notin IOErrors)
                => (/\ get[p].result = NoErr
                    /\ verify(cache[CachePath(get[p].path)], get[p].digest,
                              get[p].path) = NoErr)

\* Both callers downloaded the same missing identity and both succeeded.
C2_Witness ==
    /\ HonestStore
    /\ \A p \in Callers :
         /\ get[p].pc = "done" /\ get[p].downloads = 1
         /\ get[p].result = NoErr
    /\ get["c1"].path = get["c2"].path

C4_SecondGetNoNetworkCall ==
    \A p \in Callers :
        (get[p].pc = "done" /\ get[p].expect # NoFile /\ get[p].result = NoErr)
            => /\ get[p].infoCalls + get[p].downloads = 0
               /\ get[p].ret = get[p].expect

\* C4 as amended: such a Get makes one network call, the info query, and no
\* download; it writes nothing, fails only if that query fails, and otherwise
\* returns the same charm from the cache file.
C4_SecondGetNoDownload ==
    \A p \in Callers :
        (get[p].pc = "done" /\ get[p].expect # NoFile)
            => /\ get[p].infoCalls = 1
               /\ get[p].downloads = 0
               /\ ~get[p].wrote
               /\ \/ get[p].result \in {ErrTransport, ErrStatus,
                                        ErrMissingKey(get[p].curl)}
                  \/ get[p].result = NoErr /\ get[p].ret = get[p].expect

\* A Get has succeeded from the cache after an earlier success.
C4_Witness ==
    \E p \in Callers :
        /\ get[p].pc = "done" /\ get[p].expect # NoFile
        /\ get[p].result = NoErr /\ get[p].ret = get[p].expect

\* C5: a Get whose curl carries an explicit revision other than the one the
\* index reports fails with the wrong-revision error, keeps the caller's
\* revision, downloads nothing and writes nothing in the cache directory.
C5_RevisionConflict ==
    \A p \in Callers :
        (/\ get[p].pc = "done" /\ get[p].known
         /\ get[p].curl.rev # Unversioned /\ get[p].curl.rev # get[p].rev)
            => /\ get[p].result = ErrWrongRevision(get[p].rev, get[p].curl)
               /\ get[p].path = get[p].curl
               /\ get[p].ret = NoFile
               /\ get[p].downloads = 0
               /\ ~get[p].wrote

\* A Get for revision 0 has been refused while the index reports revision 1.
C5_Witness ==
    \E p \in Callers :
        /\ get[p].pc = "done" /\ get[p].known
        /\ get[p].curl.rev = 0 /\ get[p].rev = 1
        /\ get[p].result = ErrWrongRevision(1, get[p].curl)

\* --------------------------------------------------------- local backend
\* Identities as the local backend reads them: with schema and series.
LocalURL(schema, series, n, r) ==
    [schema |-> schema, series |-> series, name |-> n, rev |-> r]

\* The revisions of the charms in the local repository.
LocalRevs == {0, 1, 2}

NoCharm == [name |-> "", rev |-> Unversioned]

\* One entry of the series directory: what ReadDir says it is (mode), what
\* os.Stat finds behind a symbolic link (target), whether its name starts with
\* "." or ends in ".charm", and the charm charm.ReadCharm reads there
\* (NoCharm: it cannot be read).
Entry(mode, target, dotted, suffix, ch) ==
    [mode |-> mode, target |-> target, dotted |-> dotted, suffix |-> suffix,
     charm |-> ch]

Charm(n, r) == [name |-> n, rev |-> r]

CharmDirs ==
    {Entry("dir", "", FALSE, FALSE, Charm("wordpress", r)) : r \in LocalRevs}
    \cup {Entry("dir", "", FALSE, FALSE, Charm("mysql", 0))}

CharmArchives == {Entry("file", "", FALSE, TRUE, Charm("wordpress", r)) : r \in LocalRevs}

CorruptDir == Entry("dir", "", FALSE, FALSE, NoCharm)

HiddenDir == Entry("dir", "", TRUE, FALSE, Charm("wordpress", 2))

PlainFile == Entry("file", "", FALSE, FALSE, Charm("wordpress", 2))

DanglingLink == Entry("symlink", "dangling", FALSE, FALSE, NoCharm)

LinkedDir == Entry("symlink", "dir", FALSE, FALSE, Charm("wordpress", 2))

\* The entries a series directory is made of. ReadDir lists them by file
\* name; a charm's name comes from its metadata, so any order can occur.
Entries ==
    CharmDirs \cup CharmArchives
    \cup {CorruptDir, HiddenDir, PlainFile, DanglingLink, LinkedDir}

\* The one series directory the repository holds.
Series == "precise"

ErrNonLocal(c) == <<"local repository got URL with non-local schema", c>>

ErrRepoNotFound == <<"no repository found">>

ErrCharmNotFound(c) == <<"charm not found in repository", c>>

ErrStat(i) == <<"stat: no such file or directory", i>>

\* mightBeCharm: a directory not named ".something", or a file named
\* "something.charm".
mightBeCharm(isDir, e) == IF isDir THEN ~e.dotted ELSE e.suffix

\* local.Get, lines 485-511: the scan of the listing from entry i on, latest
\* being the best candidate so far.
RECURSIVE localScan(_, _, _, _)
localScan(infos, i, latest, c) ==
    IF i > Len(infos)
    THEN IF c.rev = Unversioned /\ latest # NoCharm
         THEN [err |-> NoErr, charm |-> latest]
         ELSE [err |-> ErrCharmNotFound(c), charm |-> NoCharm]
    ELSE LET e == infos[i]
             isDir == IF e.mode = "symlink" THEN e.target = "dir"
                      ELSE e.mode = "dir"
         IN IF e.mode = "symlink" /\ e.target = "dangling"
            THEN [err |-> ErrStat(i), charm |-> NoCharm]
            ELSE IF ~mightBeCharm(isDir, e)
            THEN localScan(infos, i + 1, latest, c)
            ELSE IF e.charm = NoCharm
            THEN localScan(infos, i + 1, latest, c)
            ELSE IF e.charm.name = c.name
            THEN IF e.charm.rev = c.rev
                 THEN [err |-> NoErr, charm |-> e.charm]
                 ELSE localScan(infos, i + 1,
                                IF latest = NoCharm \/ e.charm.rev > latest.rev
                                THEN e.charm ELSE latest, c)
            ELSE localScan(infos, i + 1, latest, c)

\* local.Get.
localGet(root, infos, c) ==
    IF c.schema # "local" THEN [err |-> ErrNonLocal(c), charm |-> NoCharm]
    ELSE IF root # "dir" THEN [err |-> ErrRepoNotFound, charm |-> NoCharm]
    ELSE IF c.series # Series THEN [err |-> ErrCharmNotFound(c), charm |-> NoCharm]
    ELSE localScan(infos, 1, NoCharm, c)

\* local.Latest: Get with the revision forced to -1, item by item.
localLatest(root, infos, curls) ==
    [err |-> NoErr,
     revisions |->
        [i \in 1..Len(curls) |->
            LET r == localGet(root, infos, [curls[i] EXCEPT !.rev = Unversioned])
            IN IF r.err = NoErr
               THEN [Revision |-> r.charm.rev, Sha256 |-> NoDigest, Err |-> NoErr]
               ELSE [Revision |-> 0, Sha256 |-> NoDigest, Err |-> r.err]]]

\* ------------------------------------------------------------- mock store
ErrMockNotFound(c) == <<"charm not found in mock store", c>>

ErrBadRevision == <<"bad charm url revision">>

ErrMismatch(c, a) == <<"charm url mismatch with archive", c, a>>

\* charmURL.WithRevision(-1).String(): the key of the package table.
Base(c) == <<c.name>>

\* The revisions stored under a base.
MockRevs(tbl, base) == IF base \in DOMAIN tbl THEN DOMAIN tbl[base] ELSE {}

\* A nil archive: SetCharm removes.
NilArchive == NoCharm

\* MockCharmStore.SetCharm: the table after the call, and the error returned.
SetCharm(tbl, c, archive) ==
    LET base == Base(c)
    IN IF c.rev < 0 THEN [err |-> ErrBadRevision, charms |-> tbl]
       ELSE IF archive = NilArchive
       THEN [err |-> NoErr,
             charms |-> IF base \in DOMAIN tbl
                        THEN [tbl EXCEPT ![base] =
                                [r \in DOMAIN tbl[base] \ {c.rev} |-> tbl[base][r]]]
                        ELSE tbl]
       ELSE IF archive.name # c.name \/ archive.rev # c.rev
       THEN [err |-> ErrMismatch(c, archive), charms |-> tbl]
       ELSE [err |-> NoErr,
             charms |->
                [b \in DOMAIN tbl \cup {base} |->
                    IF b = base
                    THEN [r \in MockRevs(tbl, base) \cup {c.rev} |->
                            IF r = c.rev THEN archive ELSE tbl[base][r]]
                    ELSE tbl[b]]]

\* The greatest of a set of integers and r.
RECURSIVE MaxOver(_, _)
MaxOver(S, r) ==
    IF S = {} THEN r
    ELSE LET x == CHOOSE y \in S : TRUE
         IN MaxOver(S \ {x}, IF x > r THEN x ELSE r)

\* The mutant of interpret: an unversioned curl stands for the lowest stored
\* revision.
interpretLowest(tbl, c) ==
    [base |-> Base(c),
     rev |-> IF c.rev = Unversioned /\ MockRevs(tbl, Base(c)) # {}
             THEN CHOOSE x \in MockRevs(tbl, Base(c)) :
                    \A y \in MockRevs(tbl, Base(c)) : x <= y
             ELSE c.rev]

\* MockCharmStore.interpret: the base, and the curl's revision or, for an
\* unversioned curl, the greatest revision stored under the base.
interpret(tbl, c) ==
    [base |-> Base(c),
     rev |-> IF c.rev = Unversioned THEN MaxOver(MockRevs(tbl, Base(c)), c.rev)
             ELSE c.rev]

\* MockCharmStore.Get: the archive stored at the interpreted revision.
mockGet(tbl, c) ==
    LET at == interpret(tbl, c)
    IN IF at.rev \notin MockRevs(tbl, at.base)
       THEN [err |-> ErrMockNotFound(c), charm |-> NoCharm]
       ELSE [err |-> NoErr, charm |-> tbl[at.base][at.rev]]

\* MockCharmStore.Latest.
mockLatest(tbl, curls) ==
    [err |-> NoErr,
     revisions |->
        [i \in 1..Len(curls) |->
            LET charmURL == WithRevision(curls[i], Unversioned)
                at == interpret(tbl, charmURL)
            IN IF at.rev \notin MockRevs(tbl, at.base)
               THEN [Revision |-> 0, Sha256 |-> NoDigest,
                     Err |-> ErrMockNotFound(charmURL)]
               ELSE [Revision |-> at.rev, Sha256 |-> NoDigest, Err |-> NoErr]]]

\* -------------------------------------------------- remote backend: Latest
\* charmStore.Latest: nothing for no curls, else revisions of the curls with
\* their revisions dropped.
BaseCurls(curls) == [i \in 1..Len(curls) |-> WithRevision(curls[i], Unversioned)]

\* The mutant of remoteLatest: the query is made for no curls too.
remoteLatestAlwaysQueries(curls, reply) == revisions(BaseCurls(curls), reply)

remoteLatest(curls, reply) ==
    IF Len(curls) = 0 THEN [err |-> NoErr, revisions |-> <<>>]
    ELSE revisions(BaseCurls(curls), reply)

\* ------------------------------------------------- the batch operations
\* The sequences of at most MaxBatch members of S.
Batches(S) == UNION {[1..n -> S] : n \in 0..MaxBatch}

\* The identities asked of the local backend: the two names, one also
\* revisioned, a charm-store URL, and a series the repository does not hold.
LocalCurls ==
    {LocalURL("local", Series, "wordpress", r) : r \in {Unversioned, 1}}
    \cup {LocalURL("local", Series, "mysql", Unversioned),
          LocalURL("cs", Series, "wordpress", Unversioned),
          LocalURL("local", "quantal", "wordpress", Unversioned)}

InitIndex == [n \in Names |-> [found |-> n = "wordpress", rev |-> 0]]

\* One backend is exercised in a behaviour: the others stay as constructed.
RemoteUntouched == index = InitIndex

LocalUntouched == repoRoot = "dir" /\ repoDir = <<>>

MockUntouched == charms = <<>>

InitLatest == Init

Called(backend, curls, reply, info, out, res) ==
    [backend |-> backend, curls |-> curls, reply |-> reply, info |-> info,
     out |-> out, res |-> res]

NoReply == InfoReply("none", InitIndex, {})

NoInfo == [err |-> NoErr, infos |-> <<>>]

NoOut == [err |-> NoErr, revisions |-> <<>>]

NoRes == [err |-> NoErr, known |-> FALSE, rev |-> Unversioned,
          digest |-> NoDigest, curl |-> URL("", Unversioned)]

\* The store publishes the next revision while only the remote backend is in
\* use.
BatchPublish(n) ==
    /\ LocalUntouched /\ MockUntouched
    /\ IndexPublish(n)

\* What is at the local repository's path changes (before it is filled).
LocalSetRoot(root) ==
    /\ RemoteUntouched /\ MockUntouched
    /\ repoDir = <<>>
    /\ repoRoot # root
    /\ repoRoot' = root
    /\ call' = NoCall
    /\ UNCHANGED <<remoteVars, repoDir, charms, vf, mk>>

\* An entry appears in the series directory.
LocalAddEntry(e) ==
    /\ RemoteUntouched /\ MockUntouched
    /\ repoRoot = "dir"
    /\ Len(repoDir) < MaxEntries
    /\ repoDir' = Append(repoDir, e)
    /\ call' = NoCall
    /\ UNCHANGED <<remoteVars, repoRoot, charms, vf, mk>>

\* A test stores or removes a charm in the mock store.
MockSetCharm(c, archive) ==
    /\ RemoteUntouched /\ LocalUntouched
    /\ call = NoCall
    /\ charms' = SetCharm(charms, c, archive).charms
    /\ call' = Called("mock-set", <<c>>, NoReply, NoInfo, NoOut,
                      [err |-> SetCharm(charms, c, archive).err, charm |-> archive])
    /\ UNCHANGED <<remoteVars, repoRoot, repoDir, vf, mk>>

\* charmStore.Latest(curls...), the index answering with reply.
RemoteLatest(curls) ==
    /\ LocalUntouched /\ MockUntouched
    /\ call = NoCall
    /\ \E reply \in InfoReplies(index, BaseCurls(curls)) :
         call' = Called("remote", curls,
                        IF Len(curls) = 0 THEN NoReply ELSE reply,
                        IF Len(curls) = 0 THEN NoInfo
                        ELSE InfoResult(BaseCurls(curls), reply),
                        remoteLatest(curls, reply), NoRes)
    /\ UNCHANGED <<remoteVars, repoRoot, repoDir, charms, vf, mk>>

\* The query charmStore.Get starts with, for one curl.
RemoteGetQuery(c) ==
    /\ LocalUntouched /\ MockUntouched
    /\ call = NoCall
    /\ \E reply \in InfoReplies(index, <<c>>) :
         call' = Called("remote-get", <<c>>, reply, InfoResult(<<c>>, reply),
                        revisions(<<c>>, reply), GetResolve(c, reply))
    /\ UNCHANGED <<remoteVars, repoRoot, repoDir, charms, vf, mk>>

\* local.Latest(curls...).
LocalLatest(curls) ==
    /\ RemoteUntouched /\ MockUntouched
    /\ call = NoCall
    /\ call' = Called("local", curls, NoReply, NoInfo,
                      localLatest(repoRoot, repoDir, curls), NoRes)
    /\ UNCHANGED <<remoteVars, repoRoot, repoDir, charms, vf, mk>>

\* local.Get(curl).
LocalGet(c) ==
    /\ RemoteUntouched /\ MockUntouched
    /\ call = NoCall
    /\ call' = Called("local-get", <<c>>, NoReply, NoInfo, NoOut,
                      localGet(repoRoot, repoDir, c))
    /\ UNCHANGED <<remoteVars, repoRoot, repoDir, charms, vf, mk>>

\* MockCharmStore.Latest(curls...).
MockLatest(curls) ==
    /\ RemoteUntouched /\ LocalUntouched
    /\ call = NoCall
    /\ call' = Called("mock", curls, NoReply, NoInfo,
                      mockLatest(charms, curls), NoRes)
    /\ UNCHANGED <<remoteVars, repoRoot, repoDir, charms, vf, mk>>

\* MockCharmStore.Get(curl).
MockGet(c) ==
    /\ RemoteUntouched /\ LocalUntouched
    /\ call = NoCall
    /\ call' = Called("mock-get", <<c>>, NoReply, NoInfo, NoOut, mockGet(charms, c))
    /\ UNCHANGED <<remoteVars, repoRoot, repoDir, charms, vf, mk>>

\* The caller has taken the call's results; the next call can be made.
BatchReturn ==
    /\ call # NoCall
    /\ call' = NoCall
    /\ UNCHANGED <<remoteVars, repoRoot, repoDir, charms, vf, mk>>

NextLatest ==
    \/ \E n \in Names : BatchPublish(n)
    \/ \E root \in {"dir", "missing", "file"} : LocalSetRoot(root)
    \/ \E e \in Entries : LocalAddEntry(e)
    \/ \E c \in Resolved \cup {URL("wordpress", Unversioned)},
          a \in {NilArchive} \cup {Charm(n, r) : n \in Names, r \in Revs} :
            MockSetCharm(c, a)
    \/ \E curls \in Batches(Curls) : RemoteLatest(curls)
    \/ \E c \in Curls : RemoteGetQuery(c)
    \/ \E curls \in Batches(LocalCurls) : LocalLatest(curls)
    \/ \E c \in LocalCurls : LocalGet(c)
    \/ \E curls \in Batches(Curls) : MockLatest(curls)
    \/ \E c \in Curls : MockGet(c)
    \/ BatchReturn

SpecLatest == InitLatest /\ [][NextLatest]_vars

\* ------------------------------------------- claims on the batch operations
\* The charms of name n a scan of the series directory can return: readable,
\* and a directory not named ".something" or a file named "something.charm",
\* directly or behind a symbolic link.
LocalCandidates(n) ==
    {repoDir[i].charm : i \in
        {j \in 1..Len(repoDir) :
            LET e == repoDir[j]
                isDir == e.mode = "dir" \/ (e.mode = "symlink" /\ e.target = "dir")
                isFile == e.mode = "file" \/ (e.mode = "symlink" /\ e.target = "file")
            IN /\ (isDir /\ ~e.dotted) \/ (isFile /\ e.suffix)
               /\ e.charm # NoCharm
               /\ e.charm.name = n}}

\* The identity exists in the backend the call went to.
Exists(backend, c) ==
    CASE backend = "remote" -> index[c.name].found
      [] backend = "local" ->
            /\ c.schema = "local" /\ repoRoot = "dir" /\ c.series = Series
            /\ LocalCandidates(c.name) # {}
      [] backend = "mock" -> MockRevs(charms, Base(c)) # {}

\* The revisions the backend holds for the identity's name.
Held(backend, c) ==
    CASE backend = "remote" -> {index[c.name].rev}
      [] backend = "local" -> {ch.rev : ch \in LocalCandidates(c.name)}
      [] backend = "mock" -> MockRevs(charms, Base(c))

\* The request reached the index and the response holds every key asked for.
Answered(curls, reply) ==
    reply.status = "200" /\ SeqRange(BaseCurls(curls)) \subseteq DOMAIN reply.body

\* One Latest call keeps to the per-item contract.
PerItem(backend) ==
    (call.backend = backend /\ Len(call.curls) > 0
     /\ (backend = "remote" => Answered(call.curls, call.reply)))
        => /\ call.out.err = NoErr
           /\ Len(call.out.revisions) = Len(call.curls)
           /\ \A i \in 1..Len(call.curls) :
                LET c == call.curls[i]
                    r == call.out.revisions[i]
                IN IF Exists(backend, c)
                   THEN /\ r.Err = NoErr
                        /\ r.Revision \in Held(backend, c)
                        /\ \A h \in Held(backend, c) : h <= r.Revision
                   ELSE r.Err # NoErr

\* C6: Latest over N identities returns N results and no batch error, result
\* i for input i; an identity that does not exist carries its own error and
\* every other result the latest revision, on the remote backend (its query
\* answered), the local backend and the mock store.
C6_LatestPerItem == PerItem("remote") /\ PerItem("local") /\ PerItem("mock")

\* local.Latest answered for an identity whose charm is in the series
\* directory with the error of a symbolic link that does not resolve.
C6_DanglingLinkFailsItem ==
    /\ call.backend = "local"
    /\ \E i \in 1..Len(call.curls) :
          /\ Exists("local", call.curls[i])
          /\ \E k \in DOMAIN repoDir : call.out.revisions[i].Err = ErrStat(k)

\* The keys of the request that the response lacks.
MissingKeys(curls, reply) ==
    {i \in 1..Len(curls) : curls[i] \notin DOMAIN reply.body}

\* C7: when the index response lacks a record for one of the requested keys,
\* Info fails with the error naming the first such key and returns no infos,
\* so revisions and Latest return that error and no per-item results, and
\* Get returns that error.
C7_MissingKeyFailsWholeCall ==
    LET keys == IF call.backend = "remote" THEN BaseCurls(call.curls)
                ELSE call.curls
        missing == MissingKeys(keys, call.reply)
    IN (call.backend \in {"remote", "remote-get"} /\ call.reply.status = "200"
        /\ missing # {})
          => LET first == CHOOSE i \in missing : \A j \in missing : i <= j
             IN /\ call.info = [err |-> ErrMissingKey(keys[first]), infos |-> <<>>]
                /\ call.out = [err |-> ErrMissingKey(keys[first]),
                               revisions |-> <<>>]
                /\ call.backend = "remote-get"
                     => (call.res.err = ErrMissingKey(keys[first])
                         /\ ~call.res.known)

\* Latest asked for two names and the response held the record of one only.
C7_Witness ==
    /\ call.backend = "remote" /\ Len(call.curls) = 2
    /\ call.reply.status = "200"
    /\ Cardinality(DOMAIN call.reply.body) = 1
    /\ Cardinality(MissingKeys(BaseCurls(call.curls), call.reply)) = 1
    /\ call.out.err # NoErr /\ call.out.revisions = <<>>

\* ---------------------------------------------------- bundles: the strings
\* The strings of a bundle, each with its characters: the state holds the
\* string, the regular expressions read the characters.
Spell ==
    [s \in {"wp", "db", "0", "1", "01", "9", "new", "lxc:1", "kvm:new",
            "db/0", "db/1", "new/0", "zz", "x:", "wp:web", "db:sql",
            "zz:web", "wp:"} |->
       CASE s = "wp" -> <<"w", "p">>
         [] s = "db" -> <<"d", "b">>
         [] s = "0" -> <<"0">>
         [] s = "1" -> <<"1">>
         [] s = "01" -> <<"0", "1">>
         [] s = "9" -> <<"9">>
         [] s = "new" -> <<"n", "e", "w">>
         [] s = "lxc:1" -> <<"l", "x", "c", ":", "1">>
         [] s = "kvm:new" -> <<"k", "v", "m", ":", "n", "e", "w">>
         [] s = "db/0" -> <<"d", "b", "/", "0">>
         [] s = "db/1" -> <<"d", "b", "/", "1">>
         [] s = "new/0" -> <<"n", "e", "w", "/", "0">>
         [] s = "zz" -> <<"z", "z">>
         [] s = "x:" -> <<"x", ":">>
         [] s = "wp:web" -> <<"w", "p", ":", "w", "e", "b">>
         [] s = "db:sql" -> <<"d", "b", ":", "s", "q", "l">>
         [] s = "zz:web" -> <<"z", "z", ":", "w", "e", "b">>
         [] s = "wp:" -> <<"w", "p", ":">>]

Lower == {"a", "b", "c", "d", "e", "f", "g", "h", "i", "j", "k", "l", "m",
          "n", "o", "p", "q", "r", "s", "t", "u", "v", "w", "x", "y", "z"}

Digit == {"0", "1", "2", "3", "4", "5", "6", "7", "8", "9"}

AllIn(s, S) == \A i \in 1..Len(s) : s[i] \in S

\* The places of character ch in s.
Places(s, ch) == {i \in 1..Len(s) : s[i] = ch}

\* s cut at the places of the characters in seps: the pieces between them.
RECURSIVE Pieces(_, _)
Pieces(s, seps) ==
    LET at == {i \in 1..Len(s) : s[i] \in seps}
    IN IF at = {} THEN <<s>>
       ELSE LET k == CHOOSE i \in at : \A j \in at : i <= j
            IN <<SubSeq(s, 1, k - 1)>> \o Pieces(SubSeq(s, k + 1, Len(s)), seps)

\* names.NumberSnippet: 0|[1-9][0-9]*
IsNumber(s) ==
    Len(s) >= 1 /\ AllIn(s, Digit) /\ (s[1] = "0" => Len(s) = 1)

\* names.ContainerTypeSnippet: [a-z]+
IsContainerType(s) == Len(s) >= 1 /\ AllIn(s, Lower)

\* [a-z][a-z0-9]*
IsWord(s) == Len(s) >= 1 /\ s[1] \in Lower /\ AllIn(s, Lower \cup Digit)

\* names.ServiceSnippet: [a-z][a-z0-9]*(?:-[a-z0-9]*[a-z][a-z0-9]*)*
IsService(s) ==
    LET ps == Pieces(s, {"-"})
    IN /\ IsWord(ps[1])
       /\ \A i \in 2..Len(ps) :
            /\ AllIn(ps[i], Lower \cup Digit)
            /\ \E j \in 1..Len(ps[i]) : ps[i][j] \in Lower

\* names.RelationSnippet: [a-z][a-z0-9]*(?:[_-][a-z0-9]+)*
IsRelation(s) ==
    LET ps == Pieces(s, {"_", "-"})
    IN /\ IsWord(ps[1])
       /\ \A i \in 2..Len(ps) :
            Len(ps[i]) >= 1 /\ AllIn(ps[i], Lower \cup Digit)

\* The value of a run of digits.
RECURSIVE DigitsValue(_)
DigitsValue(s) ==
    IF Len(s) = 0 THEN 0
    ELSE 10 * DigitsValue(SubSeq(s, 1, Len(s) - 1))
         + (CHOOSE d \in 0..9 : ToString(d) = s[Len(s)])

\* strconv.Atoi with its error dropped: the value of an optionally signed
\* run of digits, and 0 for anything else.
Atoi(s) ==
    LET signed == Len(s) >= 1 /\ s[1] \in {"+", "-"}
        digits == IF signed THEN SubSeq(s, 2, Len(s)) ELSE s
    IN IF Len(digits) = 0 \/ ~AllIn(digits, Digit) THEN 0
       ELSE IF signed /\ s[1] = "-" THEN 0 - DigitsValue(digits)
       ELSE DigitsValue(digits)

NoPlacement ==
    [ContainerType |-> <<>>, Machine |-> <<>>, Service |-> <<>>, Unit |-> 0]

\* validPlacement.FindStringSubmatch: the submatches 1 to 4 of
\* ^(?:(container):)?(?:(service(/number)?)|(number))$, or no match. Submatch
\* 2 spans the service and its "/number", submatch 3 is "/number".
PlacementSubmatch(p) ==
    LET colons == Places(p, ":")
        k == CHOOSE i \in colons : TRUE
        container == IF colons = {} THEN <<>> ELSE SubSeq(p, 1, k - 1)
        body == IF colons = {} THEN p ELSE SubSeq(p, k + 1, Len(p))
        slashes == Places(body, "/")
        j == CHOOSE i \in slashes : TRUE
        none == [ok |-> FALSE, m1 |-> <<>>, m2 |-> <<>>, m3 |-> <<>>, m4 |-> <<>>]
        some == [none EXCEPT !.ok = TRUE, !.m1 = container]
    IN IF Cardinality(colons) > 1 THEN none
       ELSE IF colons # {} /\ ~IsContainerType(container) THEN none
       ELSE IF IsNumber(body) THEN [some EXCEPT !.m4 = body]
       ELSE IF IsService(body) THEN [some EXCEPT !.m2 = body]
       ELSE IF /\ Cardinality(slashes) = 1
               /\ IsService(SubSeq(body, 1, j - 1))
               /\ IsNumber(SubSeq(body, j + 1, Len(body)))
       THEN [some EXCEPT !.m2 = body, !.m3 = SubSeq(body, j, Len(body))]
       ELSE none

\* ParsePlacement: the UnitPlacement of a token, or the syntax error.
ParsePlacement(p) ==
    LET m == PlacementSubmatch(p)
        unit == IF m.m3 # <<>> THEN Atoi(m.m3) ELSE Unversioned
    IN IF ~m.ok THEN [err |-> TRUE, up |-> NoPlacement]
       ELSE IF m.m2 = Spell["new"]
       THEN IF unit # Unversioned THEN [err |-> TRUE, up |-> NoPlacement]
            ELSE [err |-> FALSE,
                  up |-> [ContainerType |-> m.m1, Machine |-> Spell["new"],
                          Service |-> <<>>, Unit |-> unit]]
       ELSE [err |-> FALSE,
             up |-> [ContainerType |-> m.m1, Machine |-> m.m4,
                     Service |-> m.m2, Unit |-> unit]]

\* parseRelation: ^(service):(relation)$
parseRelation(svcRel) ==
    LET colons == Places(svcRel, ":")
        k == CHOOSE i \in colons : TRUE
    IN IF /\ Cardinality(colons) = 1
          /\ IsService(SubSeq(svcRel, 1, k - 1))
          /\ IsRelation(SubSeq(svcRel, k + 1, Len(svcRel)))
       THEN [err |-> FALSE, svc |-> SubSeq(svcRel, 1, k - 1),
             rel |-> SubSeq(svcRel, k + 1, Len(svcRel))]
       ELSE [err |-> TRUE, svc |-> <<>>, rel |-> <<>>]

\* --------------------------------------------------- bundles: the verifier
\* ParsePlacement and parseRelation of every string of the model, computed
\* once.
PlacementOf == [p \in DOMAIN Spell |-> ParsePlacement(Spell[p])]

RelationOf == [svcRel \in DOMAIN Spell |-> parseRelation(Spell[svcRel])]

\* A verification error: which check failed (kind), on which token, name or
\* id (what), and for a relation its index (n).
VErr(kind, what, n) == [kind |-> kind, what |-> what, n |-> n]

\* The verifyConstraints function the caller hands to Verify.
verifyConstraints(c) == c # "bad"

\* charm.ParseURL on a service's Charm: whether it parses.
ParseURLOk(u) == u = "cs:precise/wordpress-1"

\* The service name ch (characters) is a key of the Services map.
ServiceNamed(bd, ch) == \E n \in DOMAIN bd.Services : Spell[n] = ch

\* The machine id ch (characters) is a key of the Machines map.
MachineNamed(bd, ch) == \E id \in DOMAIN bd.Machines : Spell[id] = ch

\* verifyRelations, lines 336-345: the elements of one relation from the
\* k-th on. svcPair is a [2]string: storing a third element panics, after the
\* errors of that element have been added.
RECURSIVE relationElements(_, _, _, _, _)
relationElements(bd, i, k, svcPair, errs) ==
    LET relPair == bd.Relations[i]
    IN IF k > Len(relPair)
       THEN [panic |-> FALSE, svcPair |-> svcPair, errors |-> errs]
       ELSE LET r == RelationOf[relPair[k]]
                e1 == IF r.err
                      THEN Append(errs, VErr("invalid relation syntax", relPair[k], i))
                      ELSE errs
                e2 == IF ~ServiceNamed(bd, r.svc)
                      THEN Append(e1, VErr("service not defined", relPair[k], i))
                      ELSE e1
            IN IF k > 2
               THEN [panic |-> TRUE, svcPair |-> svcPair, errors |-> e2]
               ELSE relationElements(bd, i, k + 1,
                                     [svcPair EXCEPT ![k] = r.svc], e2)

\* verifyRelations: the relations from the i-th on.
RECURSIVE verifyRelations(_, _, _)
verifyRelations(bd, i, errs) ==
    IF i > Len(bd.Relations) THEN [panic |-> FALSE, errors |-> errs]
    ELSE LET relPair == bd.Relations[i]
             e1 == IF Len(relPair) # 2
                   THEN Append(errs, VErr("relation has not 2 relations", "", i))
                   ELSE errs
             r == relationElements(bd, i, 1, <<<<>>, <<>>>>, e1)
             e2 == IF r.svcPair[1] = r.svcPair[2]
                   THEN Append(r.errors, VErr("relation relates a service to itself", "", i))
                   ELSE r.errors
         IN IF r.panic THEN [panic |-> TRUE, errors |-> r.errors]
            ELSE verifyRelations(bd, i + 1, e2)

\* Line 256: the unit index a placement may not name.
UnitOutOfRange(unit, numUnits) == unit >= 0 /\ unit >= numUnits - 1

\* The Services key whose characters are ch.
ServiceKey(bd, ch) == CHOOSE n \in DOMAIN bd.Services : Spell[n] = ch

MachineKey(bd, ch) == CHOOSE id \in DOMAIN bd.Machines : Spell[id] = ch

\* The mutant of AfterMissing: the loop over the tokens ends.
AfterMissingBreak(to, k) == Len(to) + 1

\* Lines 254 and 264: continue, after a token that names a service or a
\* machine the bundle does not have. The loop goes on with the next token.
AfterMissing(to, k) == k + 1

\* verifyPlacement: the tokens of to from the k-th on; st holds the errors,
\* the machine reference counts and what ParsePlacement returned so far.
RECURSIVE verifyPlacement(_, _, _, _)
verifyPlacement(bd, to, k, st0) ==
    IF k > Len(to) THEN st0
    ELSE LET p == to[k]
             r == PlacementOf[p]
             up == r.up
             st == [st0 EXCEPT !.parsed = Append(@, [token |-> p, ret |-> r])]
             add(e) == [st EXCEPT !.errors = Append(@, e)]
         IN IF r.err
            THEN verifyPlacement(bd, to, k + 1, add(VErr("invalid placement syntax", p, 0)))
            ELSE IF up.Service # <<>>
            THEN IF ~ServiceNamed(bd, up.Service)
                 THEN verifyPlacement(bd, to, AfterMissing(to, k),
                        add(VErr("placement refers to non-existent service", p, 0)))
                 ELSE IF UnitOutOfRange(up.Unit,
                            bd.Services[ServiceKey(bd, up.Service)].NumUnits)
                 THEN verifyPlacement(bd, to, k + 1,
                        add(VErr("placement specifies a unit greater than started", p, 0)))
                 ELSE verifyPlacement(bd, to, k + 1, st)
            ELSE IF up.Machine = Spell["new"]
            THEN verifyPlacement(bd, to, k + 1, st)
            ELSE IF ~MachineNamed(bd, up.Machine)
            THEN verifyPlacement(bd, to, AfterMissing(to, k),
                   add(VErr("placement refers to non-existent machine", p, 0)))
            ELSE verifyPlacement(bd, to, k + 1,
                   [st EXCEPT !.refs[MachineKey(bd, up.Machine)] = @ + 1])

\* verifyServices, lines 226-238: one service.
verifyService(bd, name, st) ==
    LET svc == bd.Services[name]
        e1 == IF svc.NumUnits < 0
              THEN <<VErr("negative number of units", name, 0)>> ELSE <<>>
        e2 == IF ~ParseURLOk(svc.Charm)
              THEN <<VErr("invalid charm URL in service", name, 0)>> ELSE <<>>
        e3 == IF ~verifyConstraints(svc.Constraints)
              THEN <<VErr("invalid constraints in service", name, 0)>> ELSE <<>>
        e4 == IF Len(svc.To) > svc.NumUnits
              THEN <<VErr("too many units specified in unit placement", name, 0)>>
              ELSE <<>>
    IN verifyPlacement(bd, svc.To, 1,
                       [st EXCEPT !.errors = @ \o e1 \o e2 \o e3 \o e4])

\* verifyServices: the services in the order the map yields them.
RECURSIVE verifyServices(_, _, _, _)
verifyServices(bd, order, k, st) ==
    IF k > Len(order) THEN st
    ELSE verifyServices(bd, order, k + 1, verifyService(bd, order[k], st))

\* validMachineId: ^number$
validMachineId(id) == IsNumber(Spell[id])

\* verifyMachines: the machines in the order the map yields them.
RECURSIVE verifyMachines(_, _, _, _)
verifyMachines(bd, order, k, errs) ==
    IF k > Len(order) THEN errs
    ELSE LET id == order[k]
             e1 == IF ~validMachineId(id)
                   THEN <<VErr("invalid machine id", id, 0)>> ELSE <<>>
             e2 == IF ~verifyConstraints(bd.Machines[id].Constraints)
                   THEN <<VErr("invalid constraints in machine", id, 0)>> ELSE <<>>
         IN verifyMachines(bd, order, k + 1, errs \o e1 \o e2)

\* The mutant of IsOrphan: no machine is ever reported.
IsOrphanNever(count) == count < 0

\* Line 204: a machine no placement refers to.
IsOrphan(count) == count = 0

\* Verify, lines 203-207: the reference counts in the order the map yields
\* them.
RECURSIVE verifyOrphans(_, _, _, _)
verifyOrphans(refs, order, k, errs) ==
    IF k > Len(order) THEN errs
    ELSE verifyOrphans(refs, order, k + 1,
            IF IsOrphan(refs[order[k]])
            THEN Append(errs, VErr("machine is not referred to", order[k], 0))
            ELSE errs)

\* The orders in which a map with the keys S may be ranged over.
Orders(S) ==
    {o \in [1..Cardinality(S) -> S] : \A i, j \in 1..Cardinality(S) :
                                         i # j => o[i] # o[j]}

\* ----------------------------------------------- bundles: the state machine
ValidCharm == "cs:precise/wordpress-1"

ServiceSpec(charm, numUnits, constraints, to) ==
    [Charm |-> charm, NumUnits |-> numUnits, Constraints |-> constraints,
     To |-> to]

\* The placement tokens the bundles are built from.
Tokens == {"0", "lxc:1", "new", "db", "db/0", "db/1", "zz", "new/0", "x:"}

\* The tokens and the relation entries that follow the first one of a list.
MoreTokens == {"0", "zz"}

\* The sequences of length at most n with the first element in S and the
\* others in T.
SeqsUpTo(S, T, n) ==
    UNION {{q \in [1..k -> S \cup T] : \A i \in 2..k : q[i] \in T} : k \in 0..n}

\* The wordpress service: its charm, units and constraints.
WpAttributes ==
    { <<ValidCharm, 2, "">>, <<ValidCharm, -1, "">>, <<"wordpress:", 1, "bad">> }

ServiceMaps ==
    { [n \in {"wp", "db"} |->
         IF n = "wp" THEN ServiceSpec(a[1], a[2], a[3], to)
         ELSE ServiceSpec(ValidCharm, 2, "", <<>>)] :
      a \in WpAttributes, to \in SeqsUpTo(Tokens, MoreTokens, MaxTo) }

\* The machines: the declared ids and those with constraints that do not
\* verify.
MachineMaps ==
    { [id \in m[1] |-> [Constraints |-> IF id \in m[2] THEN "bad" ELSE ""]] :
      m \in { <<{}, {}>>, <<{"0"}, {}>>, <<{"0", "1"}, {}>>, <<{"0"}, {"0"}>>,
              <<{"0", "01"}, {}>> } }

\* The relation entries: a proper pair, a service related to itself, an
\* undefined service, a malformed element, and lists of 0, 1 and 3 elements.
RelPairs ==
    { <<"wp:web", "db:sql">>, <<"wp:web", "wp:web">>, <<"wp:web", "zz:web">>,
      <<"wp:", "db:sql">>, <<>>, <<"wp:web">>,
      <<"wp:web", "db:sql", "zz:web">> }

MoreRelPairs == {<<"wp:web", "db:sql">>, <<"wp:web", "db:sql", "zz:web">>}

Bundles ==
    { [Services |-> sv, Machines |-> m, Relations |-> rels] :
      sv \in ServiceMaps, m \in MachineMaps, rels \in SeqsUpTo(RelPairs, MoreRelPairs, MaxRels) }

BundleUntouched == UNCHANGED <<remoteVars, batchVars, mk>>

InitVerify == Init

\* Verify, lines 190-197: the verifier is built and every declared machine
\* gets the reference count 0.
VerifyStart ==
    /\ vf.pc = "none"
    /\ \E bd \in Bundles :
          vf' = [vf EXCEPT !.pc = "relations", !.bd = bd,
                           !.refs = [id \in DOMAIN bd.Machines |-> 0]]
    /\ BundleUntouched

\* The mutant of AfterRelations: the machines are verified next and the
\* services never.
AfterRelationsSkipServices == "machines"

\* Verify, lines 199-200: verifyServices() follows verifyRelations().
AfterRelations == "services"

\* Verify, line 199: verifier.verifyRelations(), or its panic.
VerifyRelations ==
    /\ vf.pc = "relations"
    /\ LET r == verifyRelations(vf.bd, 1, vf.errors)
       IN vf' = [vf EXCEPT !.pc = IF r.panic THEN "panicked" ELSE AfterRelations,
                           !.errors = r.errors]
    /\ BundleUntouched

\* Verify, line 200: verifier.verifyServices().
VerifyServices(order) ==
    /\ vf.pc = "services"
    /\ LET st == verifyServices(vf.bd, order, 1,
                                [errors |-> vf.errors, refs |-> vf.refs,
                                 parsed |-> vf.parsed])
       IN vf' = [vf EXCEPT !.pc = "machines", !.errors = st.errors,
                           !.refs = st.refs, !.parsed = st.parsed]
    /\ BundleUntouched

\* Verify, line 201: verifier.verifyMachines().
VerifyMachines(order) ==
    /\ vf.pc = "machines"
    /\ vf' = [vf EXCEPT !.pc = "orphans",
                        !.errors = verifyMachines(vf.bd, order, 1, vf.errors)]
    /\ BundleUntouched

\* verifier.err()
VerifierErr(errors) ==
    IF Len(errors) > 0 THEN [err |-> "VerificationError", Errors |-> errors]
    ELSE [err |-> "nil"]

\* Verify, lines 203-208: the orphan loop and the return.
VerifyOrphans(order) ==
    /\ vf.pc = "orphans"
    /\ LET errs == verifyOrphans(vf.refs, order, 1, vf.errors)
       IN vf' = [vf EXCEPT !.pc = "done", !.errors = errs,
                           !.result = VerifierErr(errs)]
    /\ BundleUntouched

NextVerify ==
    \/ VerifyStart
    \/ VerifyRelations
    \/ \E order \in Orders(DOMAIN vf.bd.Services) : VerifyServices(order)
    \/ \E order \in Orders(DOMAIN vf.bd.Machines) : VerifyMachines(order)
    \/ \E order \in Orders(DOMAIN vf.refs) : VerifyOrphans(order)

SpecVerify == InitVerify /\ [][NextVerify]_vars

\* ------------------------------------------------- claims on the verifier
Range(s) == {s[i] : i \in DOMAIN s}

\* The violations of a bundle, check by check, as sets.
RelationViolations(bd) ==
    LET rels == bd.Relations
        svcOf(i, k) == IF k \in DOMAIN rels[i] THEN RelationOf[rels[i][k]].svc
                       ELSE <<>>
    IN {VErr("relation has not 2 relations", "", i) :
           i \in {j \in DOMAIN rels : Len(rels[j]) # 2}}
       \cup {VErr("invalid relation syntax", rels[e[1]][e[2]], e[1]) :
               e \in {f \in (DOMAIN rels) \X (1..3) :
                        /\ f[2] \in DOMAIN rels[f[1]]
                        /\ RelationOf[rels[f[1]][f[2]]].err}}
       \cup {VErr("service not defined", rels[e[1]][e[2]], e[1]) :
               e \in {f \in (DOMAIN rels) \X (1..3) :
                        /\ f[2] \in DOMAIN rels[f[1]]
                        /\ ~ServiceNamed(bd, RelationOf[rels[f[1]][f[2]]].svc)}}
       \cup {VErr("relation relates a service to itself", "", i) :
               i \in {j \in DOMAIN rels : svcOf(j, 1) = svcOf(j, 2)}}

PlacementViolations(bd) ==
    LET toks == UNION {Range(bd.Services[n].To) : n \in DOMAIN bd.Services}
        up(p) == PlacementOf[p].up
        ok(p) == ~PlacementOf[p].err
    IN {VErr("invalid placement syntax", p, 0) : p \in {q \in toks : ~ok(q)}}
       \cup {VErr("placement refers to non-existent service", p, 0) :
               p \in {q \in toks : /\ ok(q)
                                   /\ up(q).Service # <<>>
                                   /\ ~ServiceNamed(bd, up(q).Service)}}
       \cup {VErr("placement specifies a unit greater than started", p, 0) :
               p \in {q \in toks :
                        /\ ok(q)
                        /\ up(q).Service # <<>>
                        /\ \E n \in DOMAIN bd.Services :
                              /\ Spell[n] = up(q).Service
                              /\ up(q).Unit >= 0
                              /\ up(q).Unit >= bd.Services[n].NumUnits - 1}}
       \cup {VErr("placement refers to non-existent machine", p, 0) :
               p \in {q \in toks : /\ ok(q)
                                   /\ up(q).Service = <<>>
                                   /\ up(q).Machine # Spell["new"]
                                   /\ ~MachineNamed(bd, up(q).Machine)}}

ServiceViolations(bd) ==
    LET names == DOMAIN bd.Services
        svc(n) == bd.Services[n]
    IN {VErr("negative number of units", n, 0) :
           n \in {m \in names : svc(m).NumUnits < 0}}
       \cup {VErr("invalid charm URL in service", n, 0) :
               n \in {m \in names : svc(m).Charm # ValidCharm}}
       \cup {VErr("invalid constraints in service", n, 0) :
               n \in {m \in names : svc(m).Constraints = "bad"}}
       \cup {VErr("too many units specified in unit placement", n, 0) :
               n \in {m \in names : Len(svc(m).To) > svc(m).NumUnits}}
       \cup PlacementViolations(bd)

MachineViolations(bd) ==
    {VErr("invalid machine id", id, 0) :
        id \in {m \in DOMAIN bd.Machines : ~IsNumber(Spell[m])}}
    \cup {VErr("invalid constraints in machine", id, 0) :
            id \in {m \in DOMAIN bd.Machines : bd.Machines[m].Constraints = "bad"}}

\* The placement directives, over all services, that place a unit on the
\* machine id.
Referrers(bd, id) ==
    {e \in (DOMAIN bd.Services) \X (1..(MaxTo + 1)) :
        /\ e[2] \in DOMAIN bd.Services[e[1]].To
        /\ LET r == PlacementOf[bd.Services[e[1]].To[e[2]]]
           IN ~r.err /\ r.up.Service = <<>> /\ r.up.Machine = Spell[id]}

NotReferred(id) == VErr("machine is not referred to", id, 0)

OrphanViolations(bd) ==
    {NotReferred(id) : id \in {m \in DOMAIN bd.Machines : Referrers(bd, m) = {}}}

Violations(bd) ==
    RelationViolations(bd) \cup ServiceViolations(bd)
        \cup MachineViolations(bd) \cup OrphanViolations(bd)

\* C8: Verify never stops at the first violation: for every bundle it runs
\* all four checks to completion (it never ends without returning), it
\* returns nil exactly when the bundle has no violation, and otherwise it
\* returns one VerificationError whose Errors holds every violation of every
\* check.
C8_VerifyReportsEveryViolation ==
    /\ vf.pc # "panicked"
    /\ vf.pc = "done" =>
          /\ (vf.result.err = "nil") <=> (Violations(vf.bd) = {})
          /\ vf.result.err # "nil" =>
                /\ vf.result.err = "VerificationError"
                /\ Range(vf.result.Errors) = Violations(vf.bd)

\* Verify returned for a bundle with violations in several checks.
C8_ReturnedAll ==
    /\ vf.pc = "done"
    /\ RelationViolations(vf.bd) # {}
    /\ ServiceViolations(vf.bd) # {}
    /\ MachineViolations(vf.bd) # {}
    /\ OrphanViolations(vf.bd) # {}
    /\ Range(vf.result.Errors) = Violations(vf.bd)

\* A relation entry that is malformed: its list has not two elements, or an
\* element is not service:relation.
MalformedRelation(bd) ==
    \E i \in DOMAIN bd.Relations :
        \/ Len(bd.Relations[i]) # 2
        \/ \E k \in DOMAIN bd.Relations[i] : RelationOf[bd.Relations[i][k]].err

\* C9: for a bundle with a malformed relation entry, one with 0, 1, 3 or
\* more elements included, Verify terminates normally, reports the relation
\* violation, and the violations of the services, placements and machines
\* are in the same returned error.
C9_MalformedRelationDoesNotStopVerify ==
    (vf.pc # "none" /\ MalformedRelation(vf.bd)) =>
        /\ vf.pc # "panicked"
        /\ vf.pc = "done" =>
              /\ vf.result.err = "VerificationError"
              /\ RelationViolations(vf.bd) \subseteq Range(vf.result.Errors)
              /\ ServiceViolations(vf.bd) \cup MachineViolations(vf.bd)
                    \subseteq Range(vf.result.Errors)

\* Verify panicked on a relation of three elements.
C9_Panicked ==
    /\ vf.pc = "panicked"
    /\ \E i \in DOMAIN vf.bd.Relations : Len(vf.bd.Relations[i]) > 2

\* The bundle has one declared machine, no placement directive referring to
\* it, and nothing else wrong.
OneOrphan(bd) ==
    /\ Cardinality(DOMAIN bd.Machines) = 1
    /\ \A id \in DOMAIN bd.Machines : Referrers(bd, id) = {}
    /\ RelationViolations(bd) \cup ServiceViolations(bd)
          \cup MachineViolations(bd) = {}

\* How many times e is in the sequence s.
Times(s, e) == Cardinality({i \in DOMAIN s : s[i] = e})

\* C10: when the orphan check runs, every machine's reference count is the
\* number of placement directives, over all services, that refer to it; when
\* Verify returns, the "not referred to" violations are exactly one for each
\* declared machine with count zero and none for any other; and a bundle
\* with one declared machine, no placement referring to it and nothing else
\* wrong fails with exactly that one violation.
C10_OrphansAreTheUnreferredMachines ==
    /\ vf.pc \in {"orphans", "done"} =>
          \A id \in DOMAIN vf.bd.Machines :
              vf.refs[id] = Cardinality(Referrers(vf.bd, id))
    /\ vf.pc = "done" =>
          /\ \A id \in DOMAIN vf.bd.Machines :
                Times(vf.errors, NotReferred(id)) =
                    IF vf.refs[id] = 0 THEN 1 ELSE 0
          /\ \A e \in Range(vf.errors) :
                e.kind = "machine is not referred to"
                    => e.what \in DOMAIN vf.bd.Machines
          /\ OneOrphan(vf.bd) =>
                /\ vf.result.err = "VerificationError"
                /\ \E id \in DOMAIN vf.bd.Machines :
                      vf.result.Errors = <<NotReferred(id)>>

\* Verify returned for a bundle with one machine nothing refers to, and for
\* nothing else wrong.
C10_Witness ==
    /\ vf.pc = "done"
    /\ OneOrphan(vf.bd)
    /\ Len(vf.errors) = 1

\* ------------------------------------------- claims on placement directives
\* The grammar of a placement token, read off the token's characters:
\* (containertype:)?( service(/unit)? | machine-number | "new" ).
TokenBody(p) ==
    LET colons == Places(Spell[p], ":")
    IN IF colons = {} THEN Spell[p]
       ELSE SubSeq(Spell[p], (CHOOSE i \in colons : TRUE) + 1, Len(Spell[p]))

TokenContainerOk(p) ==
    LET colons == Places(Spell[p], ":")
    IN \/ colons = {}
       \/ /\ Cardinality(colons) = 1
          /\ IsContainerType(SubSeq(Spell[p], 1, (CHOOSE i \in colons : TRUE) - 1))

\* The service part and the unit part of the token's body.
TokenService(p) == Pieces(TokenBody(p), {"/"})[1]

TokenHasUnit(p) == Len(Pieces(TokenBody(p), {"/"})) = 2

TokenUnit(p) == DigitsValue(Pieces(TokenBody(p), {"/"})[2])

TokenIsMachine(p) == TokenContainerOk(p) /\ IsNumber(TokenBody(p))

TokenIsNew(p) == TokenContainerOk(p) /\ TokenBody(p) = Spell["new"]

TokenIsService(p) ==
    /\ TokenContainerOk(p)
    /\ ~IsNumber(TokenBody(p))
    /\ IsService(TokenService(p))
    /\ TokenService(p) # Spell["new"]
    /\ \/ Len(Pieces(TokenBody(p), {"/"})) = 1
       \/ TokenHasUnit(p) /\ IsNumber(Pieces(TokenBody(p), {"/"})[2])

TokenMatches(p) == TokenIsMachine(p) \/ TokenIsNew(p) \/ TokenIsService(p)

\* The places (service, index in To) where the token p is written.
Occurrences(bd, p) ==
    {e \in (DOMAIN bd.Services) \X (1..(MaxTo + 1)) :
        /\ e[2] \in DOMAIN bd.Services[e[1]].To
        /\ bd.Services[e[1]].To[e[2]] = p}

AllTokens(bd) == UNION {Range(bd.Services[n].To) : n \in DOMAIN bd.Services}

\* The token names a service or a machine the bundle does not have.
NamesMissing(bd, p) ==
    \/ TokenIsService(p) /\ ~ServiceNamed(bd, TokenService(p))
    \/ TokenIsMachine(p) /\ ~MachineNamed(bd, TokenBody(p))

PlacementKinds ==
    {"invalid placement syntax", "placement refers to non-existent service",
     "placement specifies a unit greater than started",
     "placement refers to non-existent machine"}

\* The placement errors in errs that refer to the token p.
TokenErrors(errs, p) ==
    {i \in DOMAIN errs : errs[i].kind \in PlacementKinds /\ errs[i].what = p}

\* C11: once the services are verified, every occurrence of a token that
\* matches the grammar and names a service or machine the bundle does not
\* have has produced exactly one error referring to the token; every machine's
\* use-count is the number of tokens that name it (a token naming a missing
\* machine counts for none); and the tokens written after such a token are
\* validated all the same (those that do not match the grammar have their
\* error, those naming a declared machine are counted).
C11_MissingTargetOneErrorAndGoOn ==
    vf.pc \in {"machines", "orphans", "done"} =>
        /\ \A p \in AllTokens(vf.bd) :
              NamesMissing(vf.bd, p) =>
                 Cardinality(TokenErrors(vf.errors, p))
                    = Cardinality(Occurrences(vf.bd, p))
        /\ \A p \in AllTokens(vf.bd) :
              ~TokenMatches(p) =>
                 Cardinality(TokenErrors(vf.errors, p))
                    = Cardinality(Occurrences(vf.bd, p))
        /\ \A id \in DOMAIN vf.bd.Machines :
              vf.refs[id] =
                 Cardinality(UNION {Occurrences(vf.bd, p) :
                     p \in {q \in AllTokens(vf.bd) :
                              TokenIsMachine(q) /\ TokenBody(q) = Spell[id]}})

\* A service placed on a missing service and then on a declared machine: one
\* error for the first token, one reference for the machine.
C11_Witness ==
    /\ vf.pc = "done"
    /\ vf.bd.Services["wp"].To = <<"zz", "0">>
    /\ "0" \in DOMAIN vf.bd.Machines
    /\ vf.refs["0"] = 1
    /\ Cardinality(TokenErrors(vf.errors, "zz")) = 1

\* The unit-bound errors in errs that refer to the token p.
UnitBoundErrors(errs, p) ==
    {i \in DOMAIN errs :
        /\ errs[i].kind = "placement specifies a unit greater than started"
        /\ errs[i].what = p}

\* C12: once the services are verified, a token that names an existing
\* service with NumUnits n and a unit index u has no unit-bound error when
\* u < n - 1 and one for each of its occurrences otherwise; a token that
\* names an existing service without a unit index has none.
C12_UnitBound ==
    vf.pc \in {"machines", "orphans", "done"} =>
        \A p \in AllTokens(vf.bd) :
            (TokenIsService(p) /\ ServiceNamed(vf.bd, TokenService(p))) =>
                LET n == vf.bd.Services[ServiceKey(vf.bd, TokenService(p))].NumUnits
                IN Cardinality(UnitBoundErrors(vf.errors, p)) =
                      IF TokenHasUnit(p) /\ ~(TokenUnit(p) < n - 1)
                      THEN Cardinality(Occurrences(vf.bd, p))
                      ELSE 0

\* Verify returned for a service placed on the last unit of db (unit 1 of 2):
\* the error is that the service "db/1" does not exist, and there is no
\* unit-bound error.
C12_LastUnitTakenForServiceName ==
    /\ vf.pc = "done"
    /\ vf.bd.Services["wp"].To = <<"db/1">>
    /\ vf.bd.Services["db"].NumUnits = 2
    /\ UnitBoundErrors(vf.errors, "db/1") = {}
    /\ \E i \in DOMAIN vf.errors :
          vf.errors[i] = VErr("placement refers to non-existent service", "db/1", 0)

\* --------------------------------------------------- claims on local Get
\* local.Get was called with a local identity of the series the repository
\* holds, and the repository is a directory.
LocalGetScanned ==
    /\ call.backend = "local-get"
    /\ call.curls[1].schema = "local"
    /\ call.curls[1].series = Series
    /\ repoRoot = "dir"

\* The candidates Get may return for the identity c: all those of its name
\* when c is unversioned, those of exactly its revision otherwise.
Matching(c) ==
    {ch \in LocalCandidates(c.name) : c.rev = Unversioned \/ ch.rev = c.rev}

\* C13: local Get with an unversioned identity returns the candidate of the
\* identity's name with the highest revision; with an explicit revision it
\* returns a candidate of exactly that revision if there is one; when there
\* is nothing to return it fails with the charm-not-found error, and it never
\* returns a different revision.
C13_LocalGetPicksRevision ==
    LocalGetScanned =>
        LET c == call.curls[1]
            r == call.res
        IN IF Matching(c) # {}
           THEN /\ r.err = NoErr
                /\ r.charm \in Matching(c)
                /\ \A ch \in Matching(c) : ch.rev <= r.charm.rev
           ELSE r.err = ErrCharmNotFound(c) /\ r.charm = NoCharm

\* Get was asked for revision 1, a charm of that name and revision is in the
\* directory, and Get returned the error of a link that does not resolve.
C13_ExactRevisionLostToStatError ==
    /\ LocalGetScanned
    /\ call.curls[1].rev = 1
    /\ Matching(call.curls[1]) # {}
    /\ \E k \in DOMAIN repoDir : call.res.err = ErrStat(k)

\* The entries that cannot be read: a charm directory that does not load, a
\* symbolic link whose target does not resolve.
Unreadable == {CorruptDir, DanglingLink}

\* C14: when the series directory holds an entry that cannot be read and,
\* elsewhere, a candidate matching the identity, Get still returns a matching
\* candidate, in whatever order the entries are listed.
C14_UnreadableEntrySkipped ==
    (/\ LocalGetScanned
     /\ \E i \in DOMAIN repoDir : repoDir[i] \in Unreadable
     /\ Matching(call.curls[1]) # {})
        => /\ call.res.err = NoErr
           /\ call.res.charm \in Matching(call.curls[1])

\* Get met a link that does not resolve before it could return the matching
\* candidate listed after it.
C14_DanglingLinkAbortsScan ==
    /\ LocalGetScanned
    /\ Len(repoDir) = 2
    /\ repoDir[1] = DanglingLink
    /\ repoDir[2].charm \in Matching(call.curls[1])
    /\ repoDir[2] \in CharmDirs
    /\ call.res = [err |-> ErrStat(1), charm |-> NoCharm]

\* ------------------------------------------- claims on the empty Latest
\* C15: Latest with no identities returns no error and a result of length
\* 0, on the remote backend, the local backend (whatever is at its path) and
\* the mock store; the remote backend sends no query for it.
C15_EmptyLatest ==
    (call.backend \in {"remote", "local", "mock"} /\ Len(call.curls) = 0) =>
        /\ call.out.err = NoErr
        /\ Len(call.out.revisions) = 0
        /\ call.reply = NoReply
        /\ call.info = NoInfo

\* Latest with no identities returned on a local repository whose path does
\* not exist.
C15_Witness ==
    /\ call.backend = "local"
    /\ Len(call.curls) = 0
    /\ repoRoot = "missing"
    /\ call.out = [err |-> NoErr, revisions |-> <<>>]

\* ------------------------------------- mock store: concurrent goroutines
Op(name, field, write, val, curl, archive) ==
    [name |-> name, field |-> field, write |-> write, val |-> val,
     curl |-> curl, archive |-> archive]

\* The setters and getters of the attributes: each locks s.mu, defers the
\* unlock, and writes or reads its field.
MockAttrOps ==
    {Op("SetAuthAttrs", "authAttrs", TRUE, "secret", NoOp.curl, NoOp.archive),
     Op("AuthAttrs", "authAttrs", FALSE, "", NoOp.curl, NoOp.archive),
     Op("WithTestMode", "testMode", TRUE, "true", NoOp.curl, NoOp.archive),
     Op("TestMode", "testMode", FALSE, "", NoOp.curl, NoOp.archive),
     Op("SetDefaultSeries", "defaultSeries", TRUE, "precise", NoOp.curl,
        NoOp.archive),
     Op("DefaultSeries", "defaultSeries", FALSE, "", NoOp.curl, NoOp.archive)}

\* The calls on the table: SetCharm storing, removing and refusing, Get and
\* Latest. None of them touches s.mu.
MockTableOps ==
    {Op("SetCharm", "charms", TRUE, "", URL("wordpress", r), Charm("wordpress", r)) :
        r \in Revs}
    \cup {Op("SetCharm", "charms", TRUE, "", URL("wordpress", 0), NilArchive),
          Op("SetCharm", "charms", TRUE, "", URL("wordpress", Unversioned),
             Charm("wordpress", 0)),
          Op("Get", "charms", FALSE, "", URL("wordpress", Unversioned), NoOp.archive),
          Op("Latest", "charms", FALSE, "", URL("wordpress", 1), NoOp.archive)}

\* The call reads or writes s.charms: SetCharm returns before it does when
\* it refuses its arguments.
TouchesTable(op) ==
    op.name = "SetCharm" => SetCharm(<<>>, op.curl, op.archive).err = NoErr

MockUntouchedRest == UNCHANGED <<remoteVars, repoRoot, repoDir, call, vf>>

\* s.mu.Lock() of a setter or getter.
MockLock(p, op) ==
    /\ ~mk.crashed
    /\ mk.proc[p].pc = "idle"
    /\ mk.mu = "free"
    /\ mk' = [mk EXCEPT !.mu = p, !.proc[p].pc = "locked", !.proc[p].op = op]
    /\ UNCHANGED charms
    /\ MockUntouchedRest

\* The setter's assignment or the getter's read starts.
MockAttrAccess(p) ==
    /\ ~mk.crashed
    /\ mk.proc[p].pc = "locked"
    /\ LET op == mk.proc[p].op
           m == [mk EXCEPT !.proc[p].pc = "accessing"]
       IN mk' = IF ~op.write THEN m
                ELSE IF op.field = "authAttrs" THEN [m EXCEPT !.authAttrs = op.val]
                ELSE IF op.field = "testMode" THEN [m EXCEPT !.testMode = op.val]
                ELSE [m EXCEPT !.defaultSeries = op.val]
    /\ UNCHANGED charms
    /\ MockUntouchedRest

\* The access is over and the deferred s.mu.Unlock() runs.
MockUnlock(p) ==
    /\ ~mk.crashed
    /\ mk.proc[p].pc = "accessing"
    /\ mk' = [mk EXCEPT !.mu = "free", !.proc[p].pc = "idle",
                        !.proc[p].op = NoOp, !.proc[p].ret = NoErr]
    /\ UNCHANGED charms
    /\ MockUntouchedRest

\* Another goroutine is in s.charms, and one of the two writes it.
Races(p, op) ==
    \E q \in Callers \ {p} :
        mk.proc[q].pc = "table" /\ (op.write \/ mk.proc[q].op.write)

\* SetCharm, Get or Latest starts: it returns at once when it refuses its
\* arguments, and is in s.charms otherwise, without the mutex. When it races
\* with another goroutine the runtime may stop the program (concurrent map
\* access) or not.
MockTableEnter(p, op) ==
    /\ ~mk.crashed
    /\ mk.proc[p].pc = "idle"
    /\ \E crash \in {FALSE} \cup {Races(p, op) /\ TouchesTable(op)} :
         mk' = [mk EXCEPT
                  !.crashed = crash,
                  !.proc[p] = IF TouchesTable(op)
                              THEN [pc |-> "table", op |-> op, ret |-> NoErr]
                              ELSE [pc |-> "idle", op |-> NoOp,
                                    ret |-> SetCharm(charms, op.curl, op.archive).err]]
    /\ UNCHANGED charms
    /\ MockUntouchedRest

\* The call's reads and writes of s.charms are done and it returns.
MockTableLeave(p) ==
    /\ ~mk.crashed
    /\ mk.proc[p].pc = "table"
    /\ LET op == mk.proc[p].op
           found == LET at == interpret(charms, IF op.name = "Latest"
                                                THEN WithRevision(op.curl, Unversioned)
                                                ELSE op.curl)
                    IN at.rev \in MockRevs(charms, at.base)
       IN /\ charms' = IF op.name = "SetCharm"
                       THEN SetCharm(charms, op.curl, op.archive).charms
                       ELSE charms
          /\ mk' = [mk EXCEPT
                      !.proc[p] = [pc |-> "idle", op |-> NoOp,
                                   ret |-> IF op.name = "SetCharm" \/ found
                                           THEN NoErr
                                           ELSE ErrMockNotFound(op.curl)]]
    /\ MockUntouchedRest

NextMock ==
    \/ \E p \in Callers, op \in MockAttrOps : MockLock(p, op)
    \/ \E p \in Callers : MockAttrAccess(p)
    \/ \E p \in Callers : MockUnlock(p)
    \/ \E p \in Callers, op \in MockTableOps : MockTableEnter(p, op)
    \/ \E p \in Callers : MockTableLeave(p)

SpecMock == Init /\ [][NextMock]_vars

\* ------------------------------------------ claims on the mock store's mutex
\* The piece of the store's state the goroutine is reading or writing now.
Touching(p) ==
    IF mk.proc[p].pc = "accessing" THEN {mk.proc[p].op.field}
    ELSE IF mk.proc[p].pc = "table" THEN {"charms"}
    ELSE {}

\* C16: every access to the store's attributes and to its table is made
\* holding the mutex, so no two goroutines are in the same piece of state at
\* the same time (and the runtime never stops the program for a concurrent
\* map access).
C16_EveryAccessUnderMutex ==
    /\ \A p \in Callers : Touching(p) # {} => mk.mu = p
    /\ \A p, q \in Callers : p # q => Touching(p) \cap Touching(q) = {}
    /\ ~mk.crashed

\* SetCharm of one goroutine and Get of another are in s.charms together,
\* and nobody holds the mutex.
C16_TableRace ==
    /\ mk.mu = "free"
    /\ mk.proc["c1"].pc = "table" /\ mk.proc["c1"].op.name = "SetCharm"
    /\ mk.proc["c2"].pc = "table" /\ mk.proc["c2"].op.name = "Get"

\* ------------------------------------------------ claims on ParsePlacement
\* The container type written in the token, if any.
TokenContainer(p) ==
    LET colons == Places(Spell[p], ":")
    IN IF colons = {} THEN <<>>
       ELSE SubSeq(Spell[p], 1, (CHOOSE i \in colons : TRUE) - 1)

\* C17: for every token ParsePlacement was given: a token of the grammar is
\* accepted, with exactly one of Machine and Service set: a machine number
\* gives that Machine (and the container type written before it), "new"
\* gives Machine "new" with no Service, a service gives that Service and the
\* unit index written after "/" ; Unit is -1 when no index is written; "new"
\* with a unit index and every token outside the grammar are rejected.
C17_ParsePlacementGrammar ==
    \A i \in DOMAIN vf.parsed :
        LET p == vf.parsed[i].token
            r == vf.parsed[i].ret
        IN IF ~TokenMatches(p) THEN r.err
           ELSE /\ ~r.err
                /\ (r.up.Machine = <<>>) # (r.up.Service = <<>>)
                /\ r.up.ContainerType = TokenContainer(p)
                /\ TokenIsMachine(p) =>
                      /\ r.up.Machine = TokenBody(p)
                      /\ r.up.Unit = Unversioned
                /\ TokenIsNew(p) =>
                      /\ r.up.Machine = Spell["new"]
                      /\ r.up.Unit = Unversioned
                /\ TokenIsService(p) =>
                      /\ r.up.Service = TokenService(p)
                      /\ r.up.Unit = IF TokenHasUnit(p) THEN TokenUnit(p)
                                     ELSE Unversioned

\* ParsePlacement returned, for "db/1", the service "db/1" and the unit 0.
C17_UnitTakenIntoServiceName ==
    \E i \in DOMAIN vf.parsed :
        /\ vf.parsed[i].token = "db/1"
        /\ ~vf.parsed[i].ret.err
        /\ vf.parsed[i].ret.up.Service = Spell["db/1"]
        /\ vf.parsed[i].ret.up.Unit = 0

\* ------------------------------------------- claims on the order of errors
\* The check that adds an error of this kind: 1 relations, 2 services and
\* placements, 3 machines, 4 machines not referred to.
PhaseOf(kind) ==
    IF kind \in {"relation has not 2 relations", "invalid relation syntax",
                 "service not defined", "relation relates a service to itself"}
    THEN 1
    ELSE IF kind \in {"invalid machine id", "invalid constraints in machine"}
    THEN 3
    ELSE IF kind = "machine is not referred to" THEN 4
    ELSE 2

\* How many placement directives the bundle holds.
TokenCount(bd) ==
    Cardinality({e \in (DOMAIN bd.Services) \X (1..(MaxTo + 1)) :
                    e[2] \in DOMAIN bd.Services[e[1]].To})

\* C18: in the error list Verify returns, the errors of the relations come
\* before those of the services and placements, those before the errors of
\* the machines, and those before the machines not referred to; and when the
\* orphan check runs every placement of every service has been parsed and
\* counted, the machines it reports being those no placement refers to.
C18_ErrorsInPhaseOrder ==
    /\ vf.pc = "done" =>
          /\ \A i, j \in DOMAIN vf.errors :
                i < j => PhaseOf(vf.errors[i].kind) <= PhaseOf(vf.errors[j].kind)
          /\ vf.result.err = "VerificationError" => vf.result.Errors = vf.errors
    /\ vf.pc \in {"orphans", "done"} =>
          /\ Len(vf.parsed) = TokenCount(vf.bd)
          /\ \A id \in DOMAIN vf.bd.Machines :
                vf.refs[id] = Cardinality(Referrers(vf.bd, id))

\* Verify returned errors of all four checks.
C18_Witness ==
    /\ vf.pc = "done"
    /\ {PhaseOf(vf.result.Errors[i].kind) : i \in DOMAIN vf.result.Errors}
          = {1, 2, 3, 4}
    /\ \E id \in DOMAIN vf.bd.Machines : vf.refs[id] > 0

\* ------------------------------------ claims on the failed copy in remote Get
\* C19: in every step of the remote backend: a copy or close that fails
\* leaves the cache directory's final paths as they were and sends Get to
\* the removal; the removal deletes the temporary file, returns the copy's
\* error and leaves the final paths as they were; and a final path changes
\* only by the rename of a caller's temporary file holding the complete body
\* that caller downloaded.
C19_FailedCopyLeavesFinalPath ==
    [][/\ \A p \in Callers :
             (get[p].pc = "copy" /\ IsPartial(tmp'[p])) =>
                 cache' = cache /\ get'[p].pc = "remove"
       /\ \A p \in Callers :
             (get[p].pc = "remove" /\ get'[p].pc # "remove") =>
                 /\ tmp'[p] = NoFile
                 /\ get'[p].pc = "done"
                 /\ get'[p].result = ErrCopy
                 /\ get'[p].ret = NoFile
                 /\ cache' = cache
       /\ \A f \in CachePaths :
             cache'[f] # cache[f] =>
                 \E p \in Callers :
                     /\ get[p].pc = "rename"
                     /\ CachePath(get[p].path) = f
                     /\ tmp[p] = get[p].body
                     /\ ~IsPartial(tmp[p])
                     /\ cache'[f] = tmp[p]]_vars

\* A Get whose copy failed has returned the error, its temporary file is
\* gone, and the file another download put at its final path is still there.
C19_Witness ==
    \E p \in Callers :
        /\ get[p].pc = "done"
        /\ get[p].result = ErrCopy
        /\ tmp[p] = NoFile
        /\ cache[CachePath(get[p].path)] \notin {NoFile, EmptyFile}
        /\ ~IsPartial(cache[CachePath(get[p].path)])

\* ------------------------------------------------ claims on the mock store
\* The revisions stored for the unversioned key of c.
Stored(tbl, c) == MockRevs(tbl, Base(WithRevision(c, Unversioned)))

Highest(S) == CHOOSE x \in S : \A y \in S : y <= x

\* What a finished Latest or unversioned Get says, against the table.
MockAnswers(tbl, cl) ==
    /\ cl.backend = "mock" =>
         \A i \in DOMAIN cl.curls :
            LET S == Stored(tbl, cl.curls[i])
                r == cl.out.revisions[i]
            IN IF S = {}
               THEN r.Err = ErrMockNotFound(WithRevision(cl.curls[i], Unversioned))
               ELSE r.Err = NoErr /\ r.Revision = Highest(S)
    /\ (cl.backend = "mock-get" /\ cl.curls[1].rev = Unversioned) =>
         LET S == Stored(tbl, cl.curls[1])
         IN IF S = {}
            THEN cl.res = [err |-> ErrMockNotFound(cl.curls[1]), charm |-> NoCharm]
            ELSE /\ cl.res.err = NoErr
                 /\ cl.res.charm = Charm(cl.curls[1].name, Highest(S))

\* SetCharm refuses this call.
Refused(c, archive) ==
    \/ c.rev < 0
    \/ archive # NilArchive /\ (archive.name # c.name \/ archive.rev # c.rev)

\* C20: after any SetCharm calls, Latest (for any curl, its revision ignored)
\* and Get of an unversioned curl report the highest revision stored under
\* the curl's unversioned key, and not-found exactly when none is stored; a
\* SetCharm call that returns an error leaves the table as it was.
C20_MockReportsHighestStored ==
    [][/\ MockAnswers(charms', call')
       /\ call'.backend = "mock-set" =>
            /\ (call'.res.err # NoErr) = Refused(call'.curls[1], call'.res.charm)
            /\ call'.res.err # NoErr => charms' = charms]_vars

\* Latest of two curls: both revisions of the first are stored and the higher
\* one is reported, while the second, once stored and removed, is not found.
C20_Witness ==
    /\ call.backend = "mock" /\ Len(call.curls) = 2
    /\ Stored(charms, call.curls[1]) = {0, 1}
    /\ call.out.revisions[1].Revision = 1
    /\ Base(call.curls[2]) \in DOMAIN charms
    /\ Stored(charms, call.curls[2]) = {}
    /\ call.out.revisions[2].Err # NoErr

====
